---- MODULE Spec2Model ----
(***************************************************************************)
(* Model of updater.py (Lethal Company mod updater).                       *)
(*                                                                         *)
(* A package reference (URL) is a number: 1..NRefs are pages of            *)
(* thunderstore.io, BadUrl is a URL of another host.  A ModListing is a    *)
(* record with the fields of the dataclass.  The Python set iteration      *)
(* order of a frontier is unspecified, so the list comprehension of        *)
(* collect_mod_data takes the references of a frontier in any order.       *)
(***************************************************************************)
EXTENDS Integers, Sequences, FiniteSets, TLC

\* ---- bounds of the exploration -------------------------------------------
NRefs == 3      \* number of distinct thunderstore.io package pages
MaxSeeds == 2   \* longest list of URLs read from the mod list file
MaxLinks == 3   \* most dependency links on all package pages together
MaxEntries == 2 \* most payload entries of an archive of the installer runs

Refs == 1..NRefs
BadUrl == NRefs + 1
Domain == "thunderstore.io"

\* urllib.parse.urlparse(url).netloc
netloc(url) == IF url \in Refs THEN Domain ELSE "example.com"

VARIABLES
  pc,            \* position of __main
  alias,         \* the site: do the last two pages show the same package
  arg_urls,      \* urls returned by get_urls_from_file
  urls,          \* collect_mod_data: set of all urls seen
  new_urls,      \* collect_mod_data: frontier, the part not yet iterated
  new_listings,  \* collect_mod_data: listings of the current frontier
  listings,      \* collect_mod_data: accumulated listings
  original_mods, \* result of collect_mod_data, first component
  dependencies,  \* result of collect_mod_data, second component
  calls,         \* log: urls passed to get_mod_listing, in call order
  disk,          \* archive files of the working directory, by full_id
  fetches,       \* log: download locators passed to get_data_from_url
  mod_paths,     \* __main: paths returned by download_mod_from_listing
  tree_dirs,     \* directories of the modpack tree, relative to base_path
  tree_files,    \* files of the modpack tree: path -> content
  extract_calls, \* log: extract_mod calls, as indexes into all_mods
  last_extract,  \* locals of the last extract_mod call
  failure        \* reason of exit_failure or of the exception, "" while none

vars == <<pc, alias, arg_urls, urls, new_urls, new_listings, listings,
          original_mods, dependencies, calls, disk,
          fetches, mod_paths, tree_dirs, tree_files, extract_calls,
          last_extract, failure>>

collect_vars == <<urls, new_urls, new_listings, listings, original_mods,
                  dependencies, calls>>
download_vars == <<disk, fetches, mod_paths>>
tree_vars == <<tree_dirs, tree_files, extract_calls, last_extract>>

\* ---- helpers --------------------------------------------------------------
Range(s) == {s[i] : i \in 1..Len(s)}

\* Python slices s[:n] and s[n:] (n may be negative or beyond the length)
SliceIndex(s, n) ==
  IF n < 0 THEN (IF Len(s) + n < 0 THEN 0 ELSE Len(s) + n)
  ELSE IF n > Len(s) THEN Len(s) ELSE n
SliceTo(s, n) == SubSeq(s, 1, SliceIndex(s, n))
SliceFrom(s, n) == SubSeq(s, SliceIndex(s, n) + 1, Len(s))

\* sorted(s, key=...): stable, by the number key(s[i]) given as the sequence k
RECURSIVE SortedBy(_, _)
SortedBy(s, k) ==
  IF Len(s) = 0 THEN <<>>
  ELSE LET m == CHOOSE i \in 1..Len(s) :
                  \A j \in 1..Len(s) : k[i] < k[j] \/ (k[i] = k[j] /\ i <= j)
           drop(t) == SubSeq(t, 1, m - 1) \o SubSeq(t, m + 1, Len(t))
       IN <<s[m]>> \o SortedBy(drop(s), drop(k))

\* ---- the metadata provider (thunderstore.io pages) ------------------------
\* The h1 name of a page.  On a site with an alias the last two pages show
\* the same name (names are not unique across namespaces), date and version,
\* so their full_id is equal.
PageName(url) == IF alias /\ url = NRefs /\ NRefs > 1 THEN NRefs - 1 ELSE url
PageMeta(url) ==
  [name |-> PageName(url), last_updated |-> NRefs - PageName(url),
   version |-> "1.0.0"]

\* the number of dependency links on the pages of the listings ls
RECURSIVE Links(_)
Links(ls) ==
  IF Len(ls) = 0 THEN 0 ELSE Cardinality(ls[1].dependencies) + Links(Tail(ls))

\* the dependency links the page of url may show, the pages of ls being
\* known: a page does not change during a run
DepSets(url, ls) ==
  IF \E i \in 1..Len(ls) : ls[i].url = url
    THEN {ls[CHOOSE i \in 1..Len(ls) : ls[i].url = url].dependencies}
    ELSE {d \in SUBSET Refs : Cardinality(d) + Links(ls) <= MaxLinks}

\* ModListing(...) as built at the end of get_mod_listing
ModListing(url, meta, deps) ==
  [name |-> meta.name, url |-> url, last_updated |-> meta.last_updated,
   version |-> meta.version, download |-> url, dependencies |-> deps]

full_id(mod) == <<mod.name, mod.last_updated, mod.version>>

\* ---- archives ---------------------------------------------------------------
\* An entry name of a zip file is the sequence of its path segments; an
\* archive file is the set of its entry names ("names"), with where its bytes
\* came from.  The content of an extracted file is named by archive and entry.
LV1_FOLDER_NAME == "BepInEx"
LVL2_FOLDER_NAMES == {"cache", "config", "core", "patchers", "plugins"}
ExcludedNames == {"icon.png", "manifest.json", "README.md", "CHANGELOG.md"}

\* str.lower() on the path segments the archives of this model use
lower(seg) ==
  CASE seg = "BepInExPack" -> "bepinexpack"
    [] seg = "BepInEx" -> "bepinex"
    [] seg = "Plugins" -> "plugins"
    [] seg = "README.md" -> "readme.md"
    [] seg = "CHANGELOG.md" -> "changelog.md"
    [] OTHER -> seg

\* the archive the download locator of a page serves: one per placement mode,
\* all four holding a file that ends at BepInEx/plugins/x.dll, two of them one
\* that ends at BepInEx/plugins/y.dll
ServerArchive(locator) ==
  CASE locator % 4 = 1 -> {<<"plugins", "x.dll">>, <<"plugins", "y.dll">>,
                           <<"manifest.json">>, <<"README.md">>}
    [] locator % 4 = 2 -> {<<"x.dll">>, <<"y.dll">>, <<"icon.png">>,
                           <<"CHANGELOG.md">>}
    [] locator % 4 = 3 -> {<<"BepInExPack", "BepInEx", "plugins", "x.dll">>,
                           <<"BepInExPack", "winhttp.dll">>, <<"manifest.json">>}
    [] OTHER -> {<<"BepInEx", "plugins", "x.dll">>, <<"README.md">>}

ArchiveFile(origin, locator, names) ==
  [origin |-> origin, locator |-> locator, names |-> names]

Content(file, name) ==
  [origin |-> file.origin, locator |-> file.locator, name |-> name]

\* ---- the modpack tree -------------------------------------------------------
IsPrefix(p, q) == Len(p) <= Len(q) /\ SubSeq(q, 1, Len(p)) = p
Parents(p) == {SubSeq(p, 1, n) : n \in 0..(Len(p) - 1)}

\* create_modpack_tree: the directories made by the three os.mkdir calls
Scaffold ==
  {<<>>, <<LV1_FOLDER_NAME>>} \cup {<<LV1_FOLDER_NAME, f>> : f \in LVL2_FOLDER_NAMES}

\* a slip: nothing is filtered out
contents_unfiltered(file) == file.names

\* lines 154-158: the entries that are not metadata-only
contents(file) == {c \in file.names : ~ \E e \in ExcludedNames : c = <<e>>}

\* lines 162-165
is_bepinex(paths) == \E path \in paths : path[1] = "BepInExPack"

\* a slip: the folder names are compared as they are spelled
extract_path_case_sensitive(paths) ==
  IF \E path \in paths : path[1] = "BepInExPack" THEN <<>>
  ELSE IF \E path \in paths : path[1] = LV1_FOLDER_NAME THEN <<>>
  ELSE IF \E path \in paths : path[1] \in LVL2_FOLDER_NAMES THEN <<"BepInEx">>
  ELSE <<"BepInEx", "plugins">>

\* lines 162-178: the directory to extract to, relative to base_path
extract_path(paths) ==
  IF \E path \in paths : path[1] = "BepInExPack" THEN <<>>
  ELSE IF \E path \in paths : lower(path[1]) = lower(LV1_FOLDER_NAME) THEN <<>>
  ELSE IF \E path \in paths :
            lower(path[1]) \in {lower(f) : f \in LVL2_FOLDER_NAMES}
    THEN <<"BepInEx">>
  ELSE <<"BepInEx", "plugins">>

\* lines 181-182: file.extract(content, extract_path) for every content
Extracted(tree, file, cs, dest) ==
  LET new == {dest \o c : c \in cs}
  IN [dirs |-> tree.dirs \cup UNION {Parents(q) : q \in new},
      files |-> [q \in DOMAIN tree.files \cup new |->
                   IF q \in new
                     THEN Content(file, SubSeq(q, Len(dest) + 1, Len(q)))
                     ELSE tree.files[q]]]

\* a slip: files that exist at the destination are kept
copytree_keeps_existing(tree, src, dst) ==
  LET rel(q) == SubSeq(q, Len(src) + 1, Len(q))
      from == {q \in DOMAIN tree.files : IsPrefix(src, q)}
      to == {dst \o rel(q) : q \in from} \ DOMAIN tree.files
  IN [dirs |-> tree.dirs \cup {dst \o rel(d) : d \in {e \in tree.dirs : IsPrefix(src, e)}},
      files |-> [q \in DOMAIN tree.files \cup to |->
                   IF q \in to
                     THEN tree.files[CHOOSE f \in from : dst \o rel(f) = q]
                     ELSE tree.files[q]]]

\* shutil.copytree(src, dst, dirs_exist_ok=True)
copytree(tree, src, dst) ==
  LET rel(q) == SubSeq(q, Len(src) + 1, Len(q))
      from == {q \in DOMAIN tree.files : IsPrefix(src, q)}
      to == {dst \o rel(q) : q \in from}
  IN [dirs |-> tree.dirs \cup {dst \o rel(d) : d \in {e \in tree.dirs : IsPrefix(src, e)}},
      files |-> [q \in DOMAIN tree.files \cup to |->
                   IF q \in to
                     THEN tree.files[CHOOSE f \in from : dst \o rel(f) = q]
                     ELSE tree.files[q]]]

\* a slip: shutil.rmtree(extract_path), the folder the pack was extracted to
rmtree_extract_path(tree, path) ==
  LET parent == SubSeq(path, 1, Len(path) - 1)
  IN [dirs |-> {d \in tree.dirs : ~ IsPrefix(parent, d)},
      files |-> [q \in {f \in DOMAIN tree.files : ~ IsPrefix(parent, f)} |->
                   tree.files[q]]]

\* shutil.rmtree(path)
rmtree(tree, path) ==
  [dirs |-> {d \in tree.dirs : ~ IsPrefix(path, d)},
   files |-> [q \in {f \in DOMAIN tree.files : ~ IsPrefix(path, f)} |-> tree.files[q]]]

\* extract_mod, lines 154-187, for a readable archive file
extract_mod(tree, file) ==
  LET cs == contents(file)
      dest == extract_path(cs)
      unpacked == Extracted(tree, file, cs, dest)
      pack_path == dest \o <<"BepInExPack">>
  IN IF is_bepinex(cs)
       THEN rmtree(copytree(unpacked, pack_path, dest), pack_path)
       ELSE unpacked

\* the locals of an extract_mod call that the claims look at
ExtractRecord(file) ==
  [file |-> file, contents |-> contents(file),
   extract_path |-> extract_path(contents(file)),
   is_bepinex |-> is_bepinex(contents(file))]
NoExtract == ExtractRecord(ArchiveFile("none", BadUrl, {}))

\* ---- __main: reading and validating the list ------------------------------
\* The lists get_urls_from_file may return.  The order of the list reaches
\* the code only through set(urls) and the first failing check, so the lists
\* are taken in ascending order (the URL of the other host comes last).
SeedLists ==
  {s \in UNION {[1..n -> Refs \cup {BadUrl}] : n \in 0..MaxSeeds} :
     \A i \in 1..(Len(s) - 1) : s[i] <= s[i + 1]}

\* a file a previous run left in the working directory
CachedFile(url) == ArchiveFile("cached", url, ServerArchive(url))
InitialDisks ==
  {<<>>, full_id(PageMeta(NRefs)) :> CachedFile(NRefs)}

Init ==
  /\ pc = "main"
  /\ alias \in BOOLEAN
  /\ arg_urls \in SeedLists
  /\ urls = {}
  /\ new_urls = {}
  /\ new_listings = <<>>
  /\ listings = <<>>
  /\ original_mods = <<>>
  /\ dependencies = <<>>
  /\ calls = <<>>
  /\ disk \in InitialDisks
  /\ fetches = <<>>
  /\ mod_paths = <<>>
  /\ tree_dirs = {}
  /\ tree_files = <<>>
  /\ extract_calls = <<>>
  /\ last_extract = NoExtract
  /\ failure = ""

\* a slip: only the first URL of the list is checked
CheckUrlsFirstOnly ==
  /\ pc = "main"
  /\ IF Len(arg_urls) = 0
       THEN /\ pc' = "failed"
            /\ failure' = "No URLs found in file"
            /\ UNCHANGED <<urls, new_urls>>
     ELSE IF netloc(arg_urls[1]) # Domain
       THEN /\ pc' = "failed"
            /\ failure' = "URL not from domain"
            /\ UNCHANGED <<urls, new_urls>>
     ELSE /\ pc' = "collect"
          /\ urls' = Range(arg_urls)
          /\ new_urls' = Range(arg_urls)
          /\ UNCHANGED failure
  /\ UNCHANGED <<alias, arg_urls, new_listings, listings, original_mods,
                 dependencies, calls>>
  /\ UNCHANGED <<download_vars, tree_vars>>

\* lines 94-104: the two checks, then the entry of collect_mod_data (238-241)
CheckUrls ==
  /\ pc = "main"
  /\ IF Len(arg_urls) = 0
       THEN /\ pc' = "failed"
            /\ failure' = "No URLs found in file"
            /\ UNCHANGED <<urls, new_urls>>
     ELSE IF \E i \in 1..Len(arg_urls) : netloc(arg_urls[i]) # Domain
       THEN /\ pc' = "failed"
            /\ failure' = "URL not from domain"
            /\ UNCHANGED <<urls, new_urls>>
     ELSE /\ pc' = "collect"
          /\ urls' = Range(arg_urls)
          /\ new_urls' = Range(arg_urls)
          /\ UNCHANGED failure
  /\ UNCHANGED <<alias, arg_urls, new_listings, listings, original_mods,
                 dependencies, calls>>
  /\ UNCHANGED <<download_vars, tree_vars>>

\* get_mod_listing(url), lines 265-297: the listing of the page
get_mod_listing(url, deps) == ModListing(url, PageMeta(url), deps)

\* line 244, one element of the comprehension: get_mod_listing(url) returns
GetModListing ==
  /\ pc = "collect"
  /\ \E url \in new_urls :
     \E deps \in DepSets(url, listings \o new_listings) :
       /\ calls' = Append(calls, url)
       /\ new_listings' = Append(new_listings, get_mod_listing(url, deps))
       /\ new_urls' = new_urls \ {url}
  /\ UNCHANGED <<pc, alias, arg_urls, urls, listings, original_mods, dependencies,
                 failure>>
  /\ UNCHANGED <<download_vars, tree_vars>>

\* a slip: the failed lookup is logged and the reference skipped
GetModListingSkips ==
  /\ pc = "collect"
  /\ \E url \in new_urls :
       /\ calls' = Append(calls, url)
       /\ new_urls' = new_urls \ {url}
  /\ failure' = "Error obtaining URL of page"
  /\ UNCHANGED <<pc, alias, arg_urls, urls, new_listings, listings, original_mods,
                 dependencies>>
  /\ UNCHANGED <<download_vars, tree_vars>>

\* line 244, get_mod_listing(url) fails: get_data_from_url calls exit_failure
\* (lines 300-317), or the page does not parse and the exception ends __main
GetModListingFails ==
  /\ pc = "collect"
  /\ \E url \in new_urls : calls' = Append(calls, url)
  /\ pc' = "failed"
  /\ failure' = "Error obtaining URL of page"
  /\ UNCHANGED <<alias, arg_urls, urls, new_urls, new_listings, listings,
                 original_mods, dependencies>>
  /\ UNCHANGED <<download_vars, tree_vars>>

\* a slip: only the dependencies of the first listing of the frontier
DepsOfFirstOnly(ls) == IF Len(ls) = 0 THEN {} ELSE ls[1].dependencies

\* set(dep for listing in new_listings for dep in listing.dependencies)
DepsOf(ls) == UNION {ls[i].dependencies : i \in 1..Len(ls)}

\* a slip: the references already seen are not taken out
NewUrlsNotFiltered(ls, seen) == DepsOf(ls)

\* lines 247-248: the references of the next frontier
NewUrls(ls, seen) == DepsOf(ls) \ seen

\* line 259: the index that splits listings
SplitIndex(seen) == Cardinality(seen) - 1

\* lines 245-262, after the comprehension ran through the frontier
NextFrontier ==
  /\ pc = "collect"
  /\ new_urls = {}
  /\ LET all == listings \o new_listings
         found == NewUrls(new_listings, urls)
     IN /\ listings' = all
        /\ new_listings' = <<>>
        /\ IF found = {}
             THEN /\ original_mods' = SliceTo(all, SplitIndex(urls))
                  /\ dependencies' = SliceFrom(all, SplitIndex(urls))
                  /\ pc' = "report"
                  /\ UNCHANGED <<urls, new_urls>>
             ELSE /\ urls' = urls \cup found
                  /\ new_urls' = found
                  /\ UNCHANGED <<pc, original_mods, dependencies>>
  /\ UNCHANGED <<alias, arg_urls, calls, failure>>
  /\ UNCHANGED <<download_vars, tree_vars>>

\* export_mod_list, lines 204-213: the (name, url) lines in file order
export_mod_list(ls) ==
  LET sorted == SortedBy(ls, [i \in 1..Len(ls) |-> ls[i].name])
  IN [i \in 1..Len(sorted) |-> <<sorted[i].name, sorted[i].url>>]

\* lines 110-117: the urls of the printed lines, in print order
printed(ls) ==
  LET sorted == SortedBy(ls, [i \in 1..Len(ls) |-> ls[i].last_updated])
  IN [i \in 1..Len(sorted) |-> sorted[i].url]

\* lines 106-117: the export (when asked for) and the report; both only
\* read original_mods
Report ==
  /\ pc = "report"
  /\ pc' = "download"
  /\ UNCHANGED <<alias, arg_urls, collect_vars, download_vars, tree_vars, failure>>

\* lines 120-121
all_mods == original_mods \o dependencies

\* a slip: download_mod_from_listing looks at no file of the directory and
\* fetches every archive
DownloadAlwaysFetches ==
  /\ pc = "download"
  /\ Len(mod_paths) < Len(all_mods)
  /\ LET mod == all_mods[Len(mod_paths) + 1]
         path == full_id(mod)
         file == ArchiveFile("fetched", mod.download, ServerArchive(mod.download))
     IN \/ /\ fetches' = Append(fetches, mod.download)
           /\ disk' = [p \in DOMAIN disk \cup {path} |->
                         IF p = path THEN file ELSE disk[p]]
           /\ mod_paths' = Append(mod_paths, path)
           /\ UNCHANGED <<pc, failure>>
        \/ /\ fetches' = Append(fetches, mod.download)
           /\ pc' = "failed"
           /\ failure' = "Error obtaining URL of archive"
           /\ UNCHANGED <<disk, mod_paths>>
  /\ UNCHANGED <<alias, arg_urls, collect_vars, tree_vars>>

\* a slip: the failed fetch is logged, what came is saved as the archive (no
\* entries) and the run goes on
DownloadContinues ==
  /\ pc = "download"
  /\ Len(mod_paths) < Len(all_mods)
  /\ LET mod == all_mods[Len(mod_paths) + 1]
         path == full_id(mod)
     IN \/ /\ path \in DOMAIN disk
           /\ mod_paths' = Append(mod_paths, path)
           /\ UNCHANGED <<disk, fetches, pc, failure>>
        \/ /\ path \notin DOMAIN disk
           /\ fetches' = Append(fetches, mod.download)
           /\ disk' = disk @@ (path :>
                ArchiveFile("fetched", mod.download, ServerArchive(mod.download)))
           /\ mod_paths' = Append(mod_paths, path)
           /\ UNCHANGED <<pc, failure>>
        \/ /\ path \notin DOMAIN disk
           /\ fetches' = Append(fetches, mod.download)
           /\ disk' = disk @@ (path :> ArchiveFile("fetched", mod.download, {}))
           /\ mod_paths' = Append(mod_paths, path)
           /\ failure' = "Error obtaining URL of archive"
           /\ UNCHANGED pc
  /\ UNCHANGED <<alias, arg_urls, collect_vars, tree_vars>>

\* download_mod_from_listing(mod), lines 216-231, for the next mod of all_mods
Download ==
  /\ pc = "download"
  /\ Len(mod_paths) < Len(all_mods)
  /\ LET mod == all_mods[Len(mod_paths) + 1]
         path == full_id(mod)
     IN \/ /\ path \in DOMAIN disk
           /\ mod_paths' = Append(mod_paths, path)
           /\ UNCHANGED <<disk, fetches, pc, failure>>
        \/ /\ path \notin DOMAIN disk
           /\ fetches' = Append(fetches, mod.download)
           /\ disk' = disk @@ (path :>
                ArchiveFile("fetched", mod.download, ServerArchive(mod.download)))
           /\ mod_paths' = Append(mod_paths, path)
           /\ UNCHANGED <<pc, failure>>
        \/ /\ path \notin DOMAIN disk
           /\ fetches' = Append(fetches, mod.download)
           /\ pc' = "failed"
           /\ failure' = "Error obtaining URL of archive"
           /\ UNCHANGED <<disk, mod_paths>>
  /\ UNCHANGED <<alias, arg_urls, collect_vars, tree_vars>>

\* a slip: the message is logged but the run goes on into the folder that
\* was there
CreateModpackTreeExistOk ==
  /\ pc = "download"
  /\ Len(mod_paths) = Len(all_mods)
  /\ \/ /\ tree_dirs' = Scaffold
        /\ pc' = "extract"
        /\ UNCHANGED failure
     \/ /\ tree_dirs' = Scaffold
        /\ pc' = "extract"
        /\ failure' = "Folder already exists"
  /\ UNCHANGED <<alias, arg_urls, collect_vars, download_vars,
                 tree_files, extract_calls, last_extract>>

\* create_modpack_tree(base_path), lines 137-147, after the last download;
\* os.mkdir raises FileExistsError when the folder is already there
CreateModpackTree ==
  /\ pc = "download"
  /\ Len(mod_paths) = Len(all_mods)
  /\ \/ /\ tree_dirs' = Scaffold
        /\ pc' = "extract"
        /\ UNCHANGED failure
     \/ /\ pc' = "failed"
        /\ failure' = "Folder already exists"
        /\ UNCHANGED tree_dirs
  /\ UNCHANGED <<alias, arg_urls, collect_vars, download_vars,
                 tree_files, extract_calls, last_extract>>

\* a slip: the loop of line 133 without reversed()
NextIndexNotReversed == Len(extract_calls) + 1

\* the index into mod_paths of the next round of "for mod_path in
\* reversed(mod_paths)", line 133
NextIndex == Len(mod_paths) - Len(extract_calls)

\* lines 133-134, one round of the loop: extract_mod(base_path, mod_path)
ExtractMod ==
  /\ pc = "extract"
  /\ Len(extract_calls) < Len(mod_paths)
  /\ LET file == disk[mod_paths[NextIndex]]
         tree == extract_mod([dirs |-> tree_dirs, files |-> tree_files], file)
     IN /\ extract_calls' = Append(extract_calls, NextIndex)
        /\ tree_dirs' = tree.dirs
        /\ tree_files' = tree.files
        /\ last_extract' = ExtractRecord(file)
        /\ pc' = IF Len(extract_calls) + 1 = Len(mod_paths)
                   THEN "done" ELSE "extract"
  /\ UNCHANGED <<alias, arg_urls, collect_vars, download_vars, failure>>

\* the bytes a failed file.extract leaves at its target: the target is opened
\* for writing before the entry is read, so what was there is gone
Truncated(file, name) ==
  [origin |-> "truncated", locator |-> file.locator, name |-> name]

\* lines 181-182 up to the entry that raises: the entries "written" are
\* extracted whole; the entry "broken" (if one) raised while it was copied
\* (a bad CRC-32), after its target was opened
PartlyExtracted(tree, file, written, broken, dest) ==
  LET whole == Extracted(tree, file, written, dest)
      cut == {dest \o c : c \in broken}
  IN [dirs |-> whole.dirs \cup UNION {Parents(q) : q \in cut},
      files |-> [q \in DOMAIN whole.files \cup cut |->
                   IF q \in cut
                     THEN Truncated(file, SubSeq(q, Len(dest) + 1, Len(q)))
                     ELSE whole.files[q]]]

\* a slip: the exception of extract_mod is caught and logged in the loop and
\* the next package is installed
ExtractModSkips ==
  /\ pc = "extract"
  /\ Len(extract_calls) < Len(mod_paths)
  /\ extract_calls' = Append(extract_calls, NextIndex)
  /\ pc' = IF Len(extract_calls) + 1 = Len(mod_paths) THEN "done" ELSE "extract"
  /\ failure' = failure
  /\ UNCHANGED <<alias, arg_urls, collect_vars, download_vars, tree_dirs, tree_files,
                 last_extract>>

\* extract_mod raises on a file whose bytes are no good zip archive, and the
\* exception ends __main (lines 320-327).  Nothing reads the bytes before, so
\* the file shows what it is here; a file that an earlier round unpacked is
\* good.  Either zipfile.ZipFile(mod_path) raises (line 153: no central
\* directory) and nothing was written, or file.extract raises at an entry
\* (line 182) after some entries were written.
ExtractModFails ==
  /\ pc = "extract"
  /\ Len(extract_calls) < Len(mod_paths)
  /\ \A j \in Range(extract_calls) : mod_paths[j] # mod_paths[NextIndex]
  /\ extract_calls' = Append(extract_calls, NextIndex)
  /\ pc' = "failed"
  /\ failure' = "Unexpected exception"
  /\ \/ UNCHANGED <<tree_dirs, tree_files>>
     \/ LET file == disk[mod_paths[NextIndex]]
            cs == contents(file)
        IN \E bad \in cs : \E written \in SUBSET (cs \ {bad}) :
           \E broken \in {{}, {bad}} :
             LET tree == PartlyExtracted([dirs |-> tree_dirs, files |-> tree_files],
                                         file, written, broken, extract_path(cs))
             IN /\ tree_dirs' = tree.dirs
                /\ tree_files' = tree.files
  /\ UNCHANGED <<alias, arg_urls, collect_vars, download_vars, last_extract>>

Next ==
  \/ CheckUrls
  \/ GetModListing
  \/ GetModListingFails
  \/ NextFrontier
  \/ Report
  \/ Download
  \/ CreateModpackTree
  \/ ExtractMod
  \/ ExtractModFails

Spec == Init /\ [][Next]_vars

\* ---- collect_mod_data alone, every enabled step eventually taken ------------
InitCollect == Init /\ disk = <<>>

NextCollect ==
  \/ CheckUrls
  \/ GetModListing
  \/ GetModListingFails
  \/ NextFrontier

FairCollect ==
  InitCollect /\ [][NextCollect]_vars /\ WF_vars(NextCollect)

\* ---- extract_mod on any archives --------------------------------------------
\* The payload entries an archive may hold, and the four metadata files that
\* every package of thunderstore.io holds at its root.
PayloadNames ==
  {<<"BepInExPack", "BepInEx", "core", "x.dll">>,
   <<"bepinexpack", "x.dll">>,
   <<"BepInEx", "core", "x.dll">>,
   <<"bepinex", "manifest.json">>,
   <<"core", "x.dll">>,
   <<"Plugins", "x.dll">>}
MetadataNames == {<<e>> : e \in ExcludedNames}
TestArchives ==
  {payload \cup MetadataNames :
     payload \in {a \in SUBSET PayloadNames : Cardinality(a) <= MaxEntries}}

\* The state at line 132 of a run on the seeds 1..n, none of which has a
\* dependency, whose downloads brought any of the archives above.
InitExtract ==
  \E n \in 1..MaxSeeds : \E served \in [1..n -> TestArchives] :
    LET ls == [i \in 1..n |-> get_mod_listing(i, {})]
    IN /\ pc = "extract"
       /\ alias = FALSE
       /\ arg_urls = [i \in 1..n |-> i]
       /\ urls = 1..n
       /\ new_urls = {}
       /\ new_listings = <<>>
       /\ listings = ls
       /\ original_mods = SliceTo(ls, SplitIndex(1..n))
       /\ dependencies = SliceFrom(ls, SplitIndex(1..n))
       /\ calls = [i \in 1..n |-> i]
       /\ disk = [path \in {full_id(ls[i]) : i \in 1..n} |->
                    LET i == CHOOSE j \in 1..n : full_id(ls[j]) = path
                    IN ArchiveFile("fetched", ls[i].download, served[i])]
       /\ fetches = [i \in 1..n |-> ls[i].download]
       /\ mod_paths = [i \in 1..n |-> full_id(ls[i])]
       /\ tree_dirs = Scaffold
       /\ tree_files = <<>>
       /\ extract_calls = <<>>
       /\ last_extract = NoExtract
       /\ failure = ""

NextExtract == ExtractMod

SpecExtract == InitExtract /\ [][NextExtract]_vars

\* ---- properties of collect_mod_data -----------------------------------------
\* collect_mod_data has returned (it returns at least one listing)
CollectReturned == Len(original_mods) + Len(dependencies) > 0

\* the distinct seed references
Seeds == Range(arg_urls)

Urls(ls) == [i \in 1..Len(ls) |-> ls[i].url]

\* the references reachable from the set S by the dependency links that the
\* listings ls name
RECURSIVE Reachable(_, _)
Reachable(S, ls) ==
  LET step == S \cup UNION {ls[i].dependencies : i \in {j \in 1..Len(ls) : ls[j].url \in S}}
  IN IF step = S THEN S ELSE Reachable(step, ls)

\* C1: when collect_mod_data returns, original_mods is the listings of the
\* seed frontier (as many as there are distinct seed references, in call
\* order) and dependencies is the listings of the later frontiers.
C1_PartitionAtSeedFrontier ==
  CollectReturned =>
    /\ Len(original_mods) = Cardinality(Seeds)
    /\ original_mods = SubSeq(listings, 1, Cardinality(Seeds))
    /\ dependencies = SubSeq(listings, Cardinality(Seeds) + 1, Len(listings))
    /\ \A i \in 1..Len(original_mods) : original_mods[i].url \in Seeds
    /\ \A i \in 1..Len(dependencies) : dependencies[i].url \notin Seeds

\* C4: when collect_mod_data returns, the urls of the returned listings are
\* the dependency closure of the seeds: every dependency named is returned,
\* nothing outside the closure is, and every reference is returned once.
C4_ClosureExactlyOnce ==
  CollectReturned =>
    LET got == original_mods \o dependencies
    IN /\ Range(Urls(got)) = Reachable(Seeds, got)
       /\ \A i \in 1..Len(got) : got[i].dependencies \subseteq Range(Urls(got))
       /\ \A i, j \in 1..Len(got) : got[i].url = got[j].url => i = j
       /\ Seeds \subseteq Range(Urls(got))

C4_Witness ==
  /\ CollectReturned
  /\ Len(listings) = NRefs
  /\ Cardinality(Seeds) = 1
  /\ \E i, j \in 1..Len(listings) :
       i # j /\ listings[i].url \in listings[j].dependencies
             /\ listings[j].url \in listings[i].dependencies

\* C5: get_mod_listing is called at most once for each reference.
C5_QueriedAtMostOnce ==
  \A i, j \in 1..Len(calls) : calls[i] = calls[j] => i = j

\* duplicate seeds, a reference two packages depend on and a self-dependency
C5_Witness ==
  /\ CollectReturned
  /\ Len(arg_urls) > Cardinality(Seeds)
  /\ \E i \in 1..Len(listings) : listings[i].url \in listings[i].dependencies
  /\ \E i, j \in 1..Len(listings) :
       i # j /\ listings[i].dependencies \cap listings[j].dependencies # {}

\* ---- properties of the install order ------------------------------------------
Reverse(s) == [i \in 1..Len(s) |-> s[Len(s) + 1 - i]]

\* the package all_mods[i] was resolved from a seed reference
Requested(i) == all_mods[i].url \in Seeds

\* the archive file the package all_mods[i] is installed from
InstalledFrom(i) == disk[mod_paths[i]]

\* where the entry c of an archive file ends in the tree
FinalPath(file, c) ==
  LET root == extract_path(contents(file))
  IN IF is_bepinex(contents(file)) /\ c[1] = "BepInExPack"
       THEN root \o Tail(c) ELSE root \o c
FinalPaths(file) == {FinalPath(file, c) : c \in contents(file)}

\* the content is an entry of the archive file
IsContentOf(file, content) ==
  content.origin = file.origin /\ content.locator = file.locator

\* C2 as stated: after all installs, a path that a requested package R and a
\* package D that is only a dependency both write holds R's content.
C2_RequestedContentWins ==
  pc = "done" =>
    \A r, d \in 1..Len(all_mods) :
      Requested(r) /\ ~ Requested(d) =>
        \A p \in FinalPaths(InstalledFrom(r)) \cap FinalPaths(InstalledFrom(d)) :
          p \in DOMAIN tree_files /\ IsContentOf(InstalledFrom(r), tree_files[p])

\* C2 as amended: such a path holds the content of the requested package
\* discovered first among the packages that write it (R itself, unless a
\* requested package discovered before R writes the path too).
C2_EarliestRequestedContentWins ==
  pc = "done" =>
    \A r, d \in 1..Len(all_mods) :
      Requested(r) /\ ~ Requested(d) =>
        \A p \in FinalPaths(InstalledFrom(r)) \cap FinalPaths(InstalledFrom(d)) :
          /\ p \in DOMAIN tree_files
          /\ \E first \in 1..r :
               /\ Requested(first)
               /\ p \in FinalPaths(InstalledFrom(first))
               /\ \A i \in 1..(first - 1) : p \notin FinalPaths(InstalledFrom(i))
               /\ IsContentOf(InstalledFrom(first), tree_files[p])

\* a requested package and a dependency, installed from different archive
\* files of different placement, wrote the same path
C2_Witness ==
  /\ pc = "done"
  /\ \E r, d \in 1..Len(all_mods) :
       /\ Requested(r) /\ ~ Requested(d)
       /\ InstalledFrom(r) # InstalledFrom(d)
       /\ extract_path(contents(InstalledFrom(r))) # extract_path(contents(InstalledFrom(d)))
       /\ FinalPaths(InstalledFrom(r)) \cap FinalPaths(InstalledFrom(d)) # {}

\* the urls of the get_mod_listing calls, in call order: those of the seed
\* frontier and those of the later frontiers
SeedCalls == SelectSeq(calls, LAMBDA u : u \in Seeds)
LaterCalls == SelectSeq(calls, LAMBDA u : u \notin Seeds)

\* the urls of the packages of the extract_mod calls, in call order
InstalledUrls == [j \in 1..Len(extract_calls) |-> all_mods[extract_calls[j]].url]

\* C3: extract_mod is called for the records of the later frontiers in
\* reverse discovery order, then for the records of the seed frontier in
\* reverse discovery order, once for each record.
C3_InstallOrder ==
  LET order == Reverse(LaterCalls) \o Reverse(SeedCalls)
  IN pc \in {"extract", "done"} \/ Len(extract_calls) > 0 =>
       /\ Len(order) = Len(all_mods)
       /\ Len(extract_calls) <= Len(order)
       /\ InstalledUrls = SubSeq(order, 1, Len(extract_calls))
       /\ pc = "done" => InstalledUrls = order

C3_Witness ==
  /\ pc = "done"
  /\ Len(SeedCalls) >= 1
  /\ Len(LaterCalls) >= 2

\* ---- properties of a failed lookup --------------------------------------------
\* C10: once a metadata lookup has failed the run has ended at that call:
\* no step follows it, nothing was fetched, no tree exists and extract_mod
\* was not called.
C10_MetadataFailureAborts ==
  failure = "Error obtaining URL of page" =>
    /\ pc = "failed"
    /\ ~ ENABLED Next
    /\ fetches = <<>>
    /\ mod_paths = <<>>
    /\ tree_dirs = {}
    /\ tree_files = <<>>
    /\ extract_calls = <<>>

\* the lookup of a dependency failed after the seeds were resolved
C10_Witness ==
  /\ failure = "Error obtaining URL of page"
  /\ Len(listings) >= 1
  /\ Len(calls) = Len(listings) + 1

\* ---- termination of collect_mod_data ------------------------------------------
\* the listings got so far are those of a two-package cycle that holds all
\* seeds: a depends on b and b depends on a
TwoPackageCycle(ls) ==
  \E a, b \in Refs :
    /\ a # b
    /\ Seeds # {} /\ Seeds \subseteq {a, b}
    /\ \E i, j \in 1..Len(ls) :
         /\ ls[i].url = a /\ ls[i].dependencies = {b}
         /\ ls[j].url = b /\ ls[j].dependencies = {a}

\* C6: the loop of collect_mod_data ends (it returns, or the run ended at a
\* failed lookup or an invalid list), cycles and self-dependencies included;
\* for the two-package cycle it makes two lookups and returns two records.
C6_CollectTerminates ==
  /\ <>(CollectReturned \/ pc = "failed")
  /\ [](TwoPackageCycle(listings \o new_listings) =>
          /\ Len(calls) = 2
          /\ Len(listings \o new_listings) = 2
          /\ CollectReturned => Len(original_mods \o dependencies) = 2)

C6_Witness ==
  /\ CollectReturned
  /\ pc = "report"
  /\ TwoPackageCycle(original_mods \o dependencies)

\* ---- properties of extract_mod ------------------------------------------------
\* the first path segments of the entries of an archive file that are not
\* metadata-only
FirstSegments(file) == {c[1] : c \in file.names \ MetadataNames}

\* the spellings, among the segments of the archives, that are equal to the
\* loader folder name and to a subfolder name when case is ignored
LoaderSpellings == {"BepInEx", "bepinex"}
SubfolderSpellings ==
  {"cache", "config", "core", "patchers", "plugins", "Plugins"}

\* the placement mode of section 4.2, by its precedence
PlacementMode(file) ==
  IF "BepInExPack" \in FirstSegments(file) THEN "A"
  ELSE IF FirstSegments(file) \cap LoaderSpellings # {} THEN "B"
  ELSE IF FirstSegments(file) \cap SubfolderSpellings # {} THEN "C"
  ELSE "D"

ModeRoot(mode) ==
  CASE mode \in {"A", "B"} -> <<>>
    [] mode = "C" -> <<"BepInEx">>
    [] mode = "D" -> <<"BepInEx", "plugins">>

\* extract_mod has run and last_extract holds the archive it unpacked
Extracted1 == last_extract.file.origin # "none"

\* C7: extract_mod extracts to the root of the one placement mode of the
\* archive, A before B before C before D, and every entry that is not
\* metadata-only is then in the tree under that root (an entry of the
\* BepInExPack folder of a mode A archive one level up).
C7_PlacementByMode ==
  Extracted1 =>
    LET file == last_extract.file
        mode == PlacementMode(file)
        root == ModeRoot(mode)
    IN /\ last_extract.extract_path = root
       /\ \A c \in file.names \ MetadataNames :
            LET q == IF mode = "A" /\ c[1] = "BepInExPack"
                       THEN root \o Tail(c) ELSE root \o c
            IN q \in DOMAIN tree_files /\ IsContentOf(file, tree_files[q])

\* an archive with a folder bepinex and a folder core went to the base path
C7_Witness ==
  /\ Extracted1
  /\ FirstSegments(last_extract.file) = {"bepinex", "core"}
  /\ PlacementMode(last_extract.file) = "B"
  /\ <<"core", "x.dll">> \in DOMAIN tree_files

\* C8: after extract_mod of a loader-core archive every file it held at
\* BepInExPack/<p> is at <p> under the base path with that entry's content,
\* and the tree holds no BepInExPack folder.
C8_LoaderCoreMergedUp ==
  Extracted1 /\ "BepInExPack" \in FirstSegments(last_extract.file) =>
    /\ \A c \in last_extract.file.names :
         c[1] = "BepInExPack" =>
           /\ Tail(c) \in DOMAIN tree_files
           /\ tree_files[Tail(c)] = Content(last_extract.file, c)
    /\ \A q \in DOMAIN tree_files \cup tree_dirs : ~ IsPrefix(<<"BepInExPack">>, q)

\* the loader-core archive overwrote a file that an earlier archive had put
\* at the same path
C8_Witness ==
  /\ Len(extract_calls) = 2
  /\ "BepInExPack" \in FirstSegments(last_extract.file)
  /\ LET earlier == InstalledFrom(extract_calls[1])
     IN /\ earlier # last_extract.file
        /\ "BepInExPack" \notin FirstSegments(earlier)
        /\ \E c \in last_extract.file.names :
             c[1] = "BepInExPack" /\ Tail(c) \in FinalPaths(earlier)

TimesInstalled(i) ==
  Cardinality({j \in 1..Len(extract_calls) : extract_calls[j] = i})

\* C11: a run ends only in failure or normally; it ends normally only with
\* no failure reported and extract_mod called once for every record of the
\* resolved list (the closure of the seeds), each from the file of its
\* full_id, all their entries being in the tree; a failed archive fetch ends
\* the run in failure, with no tree.
C11_FailureOrFullInstall ==
  /\ pc \notin {"done", "failed"} => ENABLED Next
  /\ pc = "failed" <=> failure # ""
  /\ failure = "Error obtaining URL of archive" =>
       /\ pc = "failed"
       /\ ~ ENABLED Next
       /\ Len(mod_paths) < Len(all_mods)
       /\ tree_dirs = {} /\ extract_calls = <<>>
  /\ pc = "done" =>
       /\ all_mods = listings
       /\ Range(Urls(all_mods)) = Reachable(Seeds, all_mods)
       /\ Len(mod_paths) = Len(all_mods)
       /\ Len(extract_calls) = Len(all_mods)
       /\ \A i \in 1..Len(all_mods) :
            /\ TimesInstalled(i) = 1
            /\ mod_paths[i] = full_id(all_mods[i])
            /\ FinalPaths(InstalledFrom(i)) \subseteq DOMAIN tree_files

\* a run on three packages, one of them served from the file a previous run
\* left, ended normally
C11_Witness ==
  /\ pc = "done"
  /\ Len(all_mods) = NRefs
  /\ 0 < Len(fetches) /\ Len(fetches) < Len(all_mods)
  /\ \A i \in 1..Len(all_mods) : TimesInstalled(i) = 1

\* ---- properties of the checks of the list -------------------------------------
\* the list read from the file is empty or names another host
InvalidList ==
  Len(arg_urls) = 0 \/ \E i \in 1..Len(arg_urls) : netloc(arg_urls[i]) # Domain

\* C12: with an empty list, or a list with a URL of another host at any
\* place, the run fails at the checks: get_mod_listing is never called,
\* nothing is fetched, no tree is created, and no step follows the failure.
C12_InvalidListFailsFirst ==
  InvalidList =>
    /\ pc \in {"main", "failed"}
    /\ pc = "failed" =>
         /\ failure = IF Len(arg_urls) = 0 THEN "No URLs found in file"
                      ELSE "URL not from domain"
         /\ ~ ENABLED Next
    /\ calls = <<>> /\ listings = <<>> /\ new_listings = <<>>
    /\ fetches = <<>> /\ mod_paths = <<>>
    /\ tree_dirs = {} /\ tree_files = <<>> /\ extract_calls = <<>>

\* the list starts with a URL of thunderstore.io and ends with one of
\* another host, and the run has failed
C12_Witness ==
  /\ pc = "failed"
  /\ Len(arg_urls) >= 2
  /\ netloc(arg_urls[1]) = Domain
  /\ netloc(arg_urls[Len(arg_urls)]) # Domain

\* ---- properties of a failed extract_mod ---------------------------------------
\* C13: when extract_mod fails on an archive that is unreadable or corrupt,
\* the run fails (the package is not skipped silently) and every file that
\* the earlier extract_mod calls wrote is still in the tree with the content
\* it had.
C13_FailedExtractKeepsTree ==
  [][pc = "extract" /\ pc' = "failed" =>
       /\ failure' = "Unexpected exception"
       /\ \A q \in DOMAIN tree_files :
            q \in DOMAIN tree_files' /\ tree_files'[q] = tree_files[q]]_vars

\* ---- properties of the archive files ------------------------------------------
\* the full_id of the record whose download locator the k-th fetch was for
FetchedId(k) == full_id(get_mod_listing(fetches[k], {}))

\* C14: download_mod_from_listing fetches for a record exactly when no file
\* named by its full_id is in the directory; so no full_id is fetched twice,
\* a file left by a previous run is never fetched again, and records of equal
\* full_id get the same path, hence are installed from the same file.
C14_FetchIffNoFile ==
  /\ [][pc = "download" /\ Len(mod_paths) < Len(all_mods) =>
          LET mod == all_mods[Len(mod_paths) + 1]
          IN /\ fetches' # fetches <=> full_id(mod) \notin DOMAIN disk
             /\ fetches' # fetches => fetches' = Append(fetches, mod.download)
             /\ mod_paths' # mod_paths =>
                  /\ mod_paths' = Append(mod_paths, full_id(mod))
                  /\ full_id(mod) \in DOMAIN disk'
             /\ \A p \in DOMAIN disk : p \in DOMAIN disk' /\ disk'[p] = disk[p]]_vars
  /\ [](\A i, j \in 1..Len(fetches) : FetchedId(i) = FetchedId(j) => i = j)
  /\ [](\A p \in DOMAIN disk :
          disk[p].origin = "cached" => \A k \in 1..Len(fetches) : FetchedId(k) # p)
  /\ [](\A i, j \in 1..Len(mod_paths) :
          full_id(all_mods[i]) = full_id(all_mods[j]) =>
            mod_paths[i] = mod_paths[j] /\ InstalledFrom(i) = InstalledFrom(j))

\* two records of equal full_id were resolved, one fetch was made for them and
\* both were installed
C14_Witness ==
  /\ pc = "done"
  /\ \E i, j \in 1..Len(all_mods) :
       /\ i # j
       /\ full_id(all_mods[i]) = full_id(all_mods[j])
       /\ InstalledFrom(i).origin = "fetched"
       /\ Cardinality({k \in 1..Len(fetches) : FetchedId(k) = full_id(all_mods[i])}) = 1

\* ---- properties of the priority among dependencies ------------------------------
\* the packages of all_mods whose archive file writes the path p
Writers(p) == {i \in 1..Len(all_mods) : p \in FinalPaths(InstalledFrom(i))}

\* the earliest discovered package that writes p
FirstWriter(p) == CHOOSE i \in Writers(p) : \A j \in Writers(p) : i <= j

\* C15 as stated: after all installs, a path that two dependencies D1 and
\* D2, D1 discovered first, both write holds D1's content.
C15_FirstDependencyContentWins ==
  pc = "done" =>
    \A d1, d2 \in 1..Len(all_mods) :
      d1 < d2 /\ ~ Requested(d1) /\ ~ Requested(d2) =>
        \A p \in FinalPaths(InstalledFrom(d1)) \cap FinalPaths(InstalledFrom(d2)) :
          p \in DOMAIN tree_files /\ IsContentOf(InstalledFrom(d1), tree_files[p])

\* C15 as amended: all_mods is in discovery order, and after all installs a path that
\* two dependencies D1 and D2, D1 discovered first, both write holds the
\* content of the earliest discovered package that writes it: D1's when no
\* package discovered before D1 writes it, and D2's only when D2 is installed
\* from the very file of that package.
C15_EarliestDiscoveredWins ==
  pc = "done" =>
    /\ Urls(all_mods) = calls
    /\ \A d1, d2 \in 1..Len(all_mods) :
         d1 < d2 /\ ~ Requested(d1) /\ ~ Requested(d2) =>
           \A p \in FinalPaths(InstalledFrom(d1)) \cap FinalPaths(InstalledFrom(d2)) :
             /\ p \in DOMAIN tree_files
             /\ IsContentOf(InstalledFrom(FirstWriter(p)), tree_files[p])
             /\ FirstWriter(p) = d1 => IsContentOf(InstalledFrom(d1), tree_files[p])
             /\ IsContentOf(InstalledFrom(d2), tree_files[p]) =>
                  InstalledFrom(d2) = InstalledFrom(FirstWriter(p))

\* two dependencies, installed from different files, wrote a path that no
\* requested package writes, and it holds the content of the first
C15_Witness ==
  /\ pc = "done"
  /\ \E d1, d2 \in 1..Len(all_mods) :
       /\ d1 < d2 /\ ~ Requested(d1) /\ ~ Requested(d2)
       /\ InstalledFrom(d1) # InstalledFrom(d2)
       /\ \E p \in FinalPaths(InstalledFrom(d1)) \cap FinalPaths(InstalledFrom(d2)) :
            /\ FirstWriter(p) = d1
            /\ IsContentOf(InstalledFrom(d1), tree_files[p])
            /\ ~ IsContentOf(InstalledFrom(d2), tree_files[p])

\* ---- properties of the creation of the tree -------------------------------------
\* C16: the tree is created in one step, as the scaffold with no file, when
\* collect_mod_data has returned and every archive is there, and before the
\* first extract_mod call; it is never created again; when the base path
\* exists already the run fails with no tree and no extract_mod call.
C16_TreeCreatedOnce ==
  /\ [][tree_dirs = {} /\ tree_dirs' # {} =>
          /\ tree_dirs' = Scaffold
          /\ tree_files = <<>> /\ tree_files' = <<>>
          /\ extract_calls' = <<>>
          /\ CollectReturned
          /\ Len(mod_paths) = Len(all_mods)
          /\ \A i \in 1..Len(all_mods) : mod_paths[i] \in DOMAIN disk]_vars
  /\ [][tree_dirs # {} => Scaffold \subseteq tree_dirs' /\ pc' # "download"]_vars
  /\ [](extract_calls # <<>> => Scaffold \subseteq tree_dirs)
  /\ [](tree_dirs = {} => tree_files = <<>> /\ extract_calls = <<>>)
  /\ [](failure = "Folder already exists" =>
          /\ pc = "failed"
          /\ ~ ENABLED Next
          /\ tree_dirs = {} /\ tree_files = <<>> /\ extract_calls = <<>>)

\* the tree was just created, after two archives were fetched
C16_Witness ==
  /\ pc = "extract"
  /\ tree_dirs = Scaffold /\ tree_files = <<>> /\ extract_calls = <<>>
  /\ Len(fetches) >= 2

\* ---- properties of the export and the report ------------------------------------
\* the urls of the lines of the export listing
Exported == [i \in 1..Len(original_mods) |-> export_mod_list(original_mods)[i][2]]

\* C17: once collect_mod_data has returned, the export listing and the
\* report each hold one entry for every distinct seed reference and none for
\* a package that is only a dependency.
C17_ExportIsTheSeeds ==
  CollectReturned =>
    /\ Len(Exported) = Cardinality(Seeds)
    /\ Range(Exported) = Seeds
    /\ Len(printed(original_mods)) = Cardinality(Seeds)
    /\ Range(printed(original_mods)) = Seeds

\* ---- properties of successive installs ------------------------------------------
\* C18: an extract_mod call that returns removes no file outside
\* BepInExPack that was in the tree, and changes the content only of paths
\* that the archive it installs writes (its entries, those of its BepInExPack
\* folder one level up), to the content of that archive.
C18_InstallsOnlyAddOrOverwrite ==
  [][pc = "extract" /\ pc' \in {"extract", "done"} =>
       \A q \in DOMAIN tree_files :
         ~ IsPrefix(<<"BepInExPack">>, q) =>
           /\ q \in DOMAIN tree_files'
           /\ tree_files'[q] # tree_files[q] =>
                /\ q \in FinalPaths(last_extract'.file)
                /\ IsContentOf(last_extract'.file, tree_files'[q])]_vars

\* the second install kept a file of the first and overwrote another
C18_Witness ==
  /\ Len(extract_calls) = 2
  /\ LET earlier == InstalledFrom(extract_calls[1])
         later == last_extract.file
     IN /\ earlier # later
        /\ \E q \in FinalPaths(earlier) :
             q \in DOMAIN tree_files /\ IsContentOf(earlier, tree_files[q])
        /\ \E q \in FinalPaths(earlier) \cap FinalPaths(later) :
             IsContentOf(later, tree_files[q])
====
